---- MODULE Spec2Model ----
(***************************************************************************)
(* A model of util.py: the DOI helpers (clean_doi, is_doi_url), the text   *)
(* normalizers (normalize, normalize_simple), the WSGI method-override     *)
(* middleware and safe_commit.                                             *)
(*                                                                         *)
(* A Python str is a sequence of characters; a character is a one-element  *)
(* TLA+ string, and a non-ASCII character is written by its code point     *)
(* ("U+0130").  None is the value NoneVal.                                 *)
(***************************************************************************)
EXTENDS Integers, Sequences, FiniteSets, TLC

VARIABLES
    pc,        \* position of the caller that drives the function under study
    arg,       \* the argument of the call (dirty_doi, url, text, environ, ...)
    out,       \* the outcome of the call: a return value or a raised exception
    arg2,      \* a second argument (the re-submitted DOI, the edited text u)
    out2,      \* the outcome of the second call
    log        \* calls observed on collaborators (wrapped app, db.session)

vars == <<pc, arg, out, arg2, out2, log>>

\* A Python value that is None or a str.
NoneVal == [isNone |-> TRUE, s |-> <<>>]
Str(s) == [isNone |-> FALSE, s |-> s]

\* The outcome of a call.
Return(v) == [kind |-> "return", value |-> v]
Raise(exc, msg) == [kind |-> "raise", exc |-> exc, msg |-> msg]
NoOutcome == [kind |-> "none"]

(***************************************************************************)
(* Bounds of the model.                                                    *)
(***************************************************************************)
MaxDoiLen == 4
MaxTokens == 3
MaxEdits == 2
MaxRequests == 2
MaxCommits == 3

(***************************************************************************)
(* Generic sequence helpers.                                               *)
(***************************************************************************)
\* s[i..j] as Python's s[i-1:j]; empty when j < i.
Slice(s, i, j) == IF j < i THEN <<>> ELSE SubSeq(s, i, j)

SetMin(S) == CHOOSE m \in S : \A n \in S : m <= n

StartsWithAt(s, i, p) ==
    /\ i + Len(p) - 1 <= Len(s)
    /\ \A k \in 1..Len(p) : s[i + k - 1] = p[k]

\* All sequences over S of length at most n.
SeqsUpTo(S, n) == UNION { [1..k -> S] : k \in 0..n }

(***************************************************************************)
(* Character tables: what str.lower, str.upper, str.isalnum, str.isspace,  *)
(* unicodedata.category and unidecode do on the characters of the model.   *)
(***************************************************************************)
UpperLetters == {"A", "B", "C", "D", "E", "G", "H", "I", "L", "N", "O", "P", "R", "S", "T", "U", "X", "Y"}
LowerLetters == {"a", "b", "c", "d", "e", "g", "h", "i", "l", "n", "o", "p", "r", "s", "t", "u", "x", "y"}
Digits == {"0", "1", "2"}
\* U+00E9 is e-acute, U+5317 the CJK ideograph "north", U+0130 capital I with
\* dot above, U+0307 the combining dot above.
NewlineChar == "\n"
WhitespaceChars == {" ", NewlineChar}

ToLowerAscii(c) ==
    CASE c = "A" -> "a" [] c = "B" -> "b" [] c = "C" -> "c" [] c = "D" -> "d"
      [] c = "E" -> "e" [] c = "G" -> "g" [] c = "H" -> "h" [] c = "I" -> "i"
      [] c = "L" -> "l" [] c = "N" -> "n" [] c = "O" -> "o" [] c = "P" -> "p"
      [] c = "R" -> "r" [] c = "S" -> "s" [] c = "T" -> "t" [] c = "U" -> "u"
      [] c = "X" -> "x" [] c = "Y" -> "y"
      [] OTHER -> c

ToUpperAscii(c) ==
    CASE c = "a" -> "A" [] c = "b" -> "B" [] c = "c" -> "C" [] c = "d" -> "D"
      [] c = "e" -> "E" [] c = "g" -> "G" [] c = "h" -> "H" [] c = "i" -> "I"
      [] c = "l" -> "L" [] c = "n" -> "N" [] c = "o" -> "O" [] c = "p" -> "P"
      [] c = "r" -> "R" [] c = "s" -> "S" [] c = "t" -> "T" [] c = "u" -> "U"
      [] c = "x" -> "X" [] c = "y" -> "Y"
      [] OTHER -> c

\* str.lower() of one character: U+0130 lowers to "i" followed by U+0307.
LowerChar(c) == IF c = "U+0130" THEN <<"i", "U+0307">> ELSE <<ToLowerAscii(c)>>

\* str.upper() of one character.
UpperChar(c) == <<ToUpperAscii(c)>>

RECURSIVE lower(_)
lower(s) == IF s = <<>> THEN <<>> ELSE LowerChar(Head(s)) \o lower(Tail(s))

RECURSIVE upper(_)
upper(s) == IF s = <<>> THEN <<>> ELSE UpperChar(Head(s)) \o upper(Tail(s))

\* First letter of unicodedata.category(c).
category(c) ==
    CASE c \in UpperLetters \cup LowerLetters \cup {"U+0130", "U+00E9", "U+5317"} -> "L"
      [] c \in Digits -> "N"
      [] c = " " -> "Z"
      [] c = NewlineChar -> "C"
      [] c = "U+0307" -> "M"
      [] c \in {"<", ">"} -> "S"
      [] OTHER -> "P"

IsUpperChar(c) == c \in UpperLetters \cup {"U+0130"}

isalnum(c) == category(c) \in {"L", "N"}

isspace(c) == c \in WhitespaceChars

\* \w of a str pattern: alphanumeric or underscore.
IsWordChar(c) == isalnum(c) \/ c = "_"

\* unidecode of one character: ASCII is kept, an accented letter loses its
\* accent, a combining mark is dropped, a CJK ideograph becomes its
\* capitalised romanisation followed by a space.
UnidecodeChar(c) ==
    CASE c = "U+00E9" -> <<"e">>
      [] c = "U+5317" -> <<"B", "e", "i", " ">>
      [] c = "U+0130" -> <<"I">>
      [] c = "U+0307" -> <<>>
      [] OTHER -> <<c>>

RECURSIVE unidecode(_)
unidecode(s) == IF s = <<>> THEN <<>> ELSE UnidecodeChar(Head(s)) \o unidecode(Tail(s))

\* "." of a regular expression: any character but a newline.
Dot(c) == c /= NewlineChar

(***************************************************************************)
(* remove_nonprinting_characters and clean_doi.                            *)
(***************************************************************************)
char_classes_to_remove == {"C", "M", "Z"}

Printing(c) == category(c) \notin char_classes_to_remove

remove_nonprinting_characters(input) == SelectSeq(input, Printing)

\* str.strip(): drop leading and trailing whitespace.
strip(s) ==
    LET idx == { i \in 1..Len(s) : ~isspace(s[i]) }
    IN  IF idx = {} THEN <<>>
        ELSE Slice(s, SetMin(idx), CHOOSE m \in idx : \A n \in idx : n <= m)

\* Where the pattern 10.+ can match at position j: "1", "0", one more character.
DoiAt(s, j) ==
    /\ j + 2 <= Len(s)
    /\ s[j] = "1" /\ s[j + 1] = "0"
    /\ Dot(s[j + 2])

\* re.findall(r'.*?(10.+)', s): the groups of the successive matches; the
\* first one runs from the first place 10.+ matches to the end of its line.
EndOfLine(s, j) ==
    LET nl == { k \in j..Len(s) : ~Dot(s[k]) }
    IN  IF nl = {} THEN Len(s) ELSE SetMin(nl) - 1

RECURSIVE FindAllDoi(_, _)
FindAllDoi(s, from) ==
    LET starts == { j \in from..Len(s) : DoiAt(s, j) }
    IN  IF starts = {} THEN <<>>
        ELSE LET j == SetMin(starts)
                 e == EndOfLine(s, j)
             IN  <<Slice(s, j, e)>> \o FindAllDoi(s, e + 1)

\* resp.split("#")[0]
UpToHash(resp) ==
    LET hs == { k \in 1..Len(resp) : resp[k] = "#" }
    IN  IF hs = {} THEN resp ELSE Slice(resp, 1, SetMin(hs) - 1)

RemoveFragment(resp) == UpToHash(resp)

MsgNoDoi == "There's no DOI at all."
MsgNoValidDoi == "There's no valid DOI."

\* "not dirty_doi": None and the empty string are falsy.
Falsy(v) == v.isNone \/ v.s = <<>>

FalsyAfterCleaning(v) == v.isNone \/ lower(strip(remove_nonprinting_characters(v.s))) = <<>>

IsNoDoiAtAll(v) == Falsy(v)

clean_doi(dirty_doi) ==
    IF IsNoDoiAtAll(dirty_doi) THEN Raise("NoDoiException", MsgNoDoi)
    ELSE LET cleaned == lower(strip(remove_nonprinting_characters(dirty_doi.s)))
             matches == FindAllDoi(cleaned, 1)
         IN  IF Len(matches) = 0 THEN Raise("NoDoiException", MsgNoValidDoi)
             ELSE Return(RemoveFragment(matches[1]))

(***************************************************************************)
(* The caller of clean_doi: it submits a raw identifier and, when a DOI     *)
(* comes back, submits that DOI again.                                     *)
(***************************************************************************)
DoiAlphabet == {"1", "0", ".", "#", "A", " ", "U+0130"}

DoiInputs == {NoneVal} \cup { Str(s) : s \in SeqsUpTo(DoiAlphabet, MaxDoiLen) }

InitDoi ==
    /\ pc = "start"
    /\ arg \in DoiInputs
    /\ out = NoOutcome
    /\ arg2 = NoneVal
    /\ out2 = NoOutcome
    /\ log = <<>>

CallCleanDoi ==
    /\ pc = "start"
    /\ out' = clean_doi(arg)
    /\ pc' = "called"
    /\ UNCHANGED <<arg, arg2, out2, log>>

ReCallCleanDoi ==
    /\ pc = "called"
    /\ out.kind = "return"
    /\ arg2' = Str(out.value)
    /\ out2' = clean_doi(Str(out.value))
    /\ pc' = "recalled"
    /\ UNCHANGED <<arg, out, log>>

NextDoi == CallCleanDoi \/ ReCallCleanDoi

SpecDoi == InitDoi /\ [][NextDoi]_vars

(***************************************************************************)
(* Claims about clean_doi.                                                 *)
(***************************************************************************)
Cleaned(v) == lower(strip(remove_nonprinting_characters(v.s)))

HasLiteralTenDot(s) == \E j \in 1..Len(s) : StartsWithAt(s, j, <<"1", "0", ".">>)

\* C1 (as stated): clean_doi is idempotent: when clean_doi(x) returns a value,
\* clean_doi of that value returns too, and returns the same value.
C1_Idempotent ==
    pc = "recalled" => (out2.kind = "return" /\ out2.value = out.value)

\* C2 (as stated): every returned value begins with "10." and an input whose
\* cleaned form holds no literal "10." raises instead of returning.
C2_BeginsWithTenDot ==
    pc = "called" =>
        /\ out.kind = "return" => StartsWithAt(out.value, 1, <<"1", "0", ".">>)
        /\ (~arg.isNone /\ ~HasLiteralTenDot(Cleaned(arg))) => out.kind = "raise"

\* Inputs a caller may compare the failure of the current call with.
DoiProbes == {NoneVal, Str(<<>>), Str(<<" ">>), Str(<<"A">>), Str(<<"1", "0">>)}

\* C3 (as stated): the two kinds of failure are told apart by the error kind:
\* a failing input that is empty after cleaning and a failing input that is
\* not raise errors of different kinds.
C3_TwoErrorKinds ==
    (pc = "called" /\ out.kind = "raise") =>
        \A y \in DoiProbes :
            (clean_doi(y).kind = "raise"
                /\ FalsyAfterCleaning(y) /= FalsyAfterCleaning(arg))
            => clean_doi(y).exc /= out.exc

\* C3 (amended): every failure of clean_doi is a NoDoiException; the message
\* is "There's no DOI at all." exactly when the raw input is None or the empty
\* string, and "There's no valid DOI." for every other failing input,
\* whitespace-only input included.
C3_OneErrorKindTwoMessages ==
    (pc = "called" /\ out.kind = "raise") =>
        /\ out.exc = "NoDoiException"
        /\ out.msg \in {MsgNoDoi, MsgNoValidDoi}
        /\ out.msg = MsgNoDoi <=> (arg.isNone \/ Len(arg.s) = 0)

\* A whitespace-only input has failed with the message of an invalid DOI.
C3_Witness ==
    /\ pc = "called"
    /\ arg = Str(<<" ", " ">>)
    /\ out.kind = "raise"
    /\ out.msg = MsgNoValidDoi

\* C4 (as stated): a returned value holds no "#", no uppercase letter and no
\* character of the categories C, M and Z.
C4_CanonicalChars ==
    (pc = "called" /\ out.kind = "return") =>
        \A k \in 1..Len(out.value) :
            /\ out.value[k] /= "#"
            /\ ~IsUpperChar(out.value[k])
            /\ category(out.value[k]) \notin {"C", "M", "Z"}

(***************************************************************************)
(* is_doi_url.                                                             *)
(***************************************************************************)
DotAt(s, k) == k <= Len(s) /\ Dot(s[k])

\* The pattern https?:\/\/(?:dx.)?doi.org\/(.*) matched at position i: hasS
\* and hasDx say whether the optional parts take part in the match.
UrlMatchAtWith(s, i, hasS, hasDx) ==
    LET p1 == i + 4
        p2 == p1 + hasS
        p3 == p2 + 3
        p4 == p3 + 3 * hasDx
    IN  /\ StartsWithAt(s, i, <<"h", "t", "t", "p">>)
        /\ hasS = 1 => StartsWithAt(s, p1, <<"s">>)
        /\ StartsWithAt(s, p2, <<":", "/", "/">>)
        /\ hasDx = 1 => (StartsWithAt(s, p3, <<"d", "x">>) /\ DotAt(s, p3 + 2))
        /\ StartsWithAt(s, p4, <<"d", "o", "i">>)
        /\ DotAt(s, p4 + 3)
        /\ StartsWithAt(s, p4 + 4, <<"o", "r", "g", "/">>)

UrlMatchAt(s, i) == \E hasS \in {0, 1} : \E hasDx \in {0, 1} : UrlMatchAtWith(s, i, hasS, hasDx)

\* re.findall scans the whole string: the places where a match starts.
FindAllUrl(s) == { i \in 1..Len(s) : UrlMatchAt(s, i) }

is_doi_url(url) == Cardinality(FindAllUrl(lower(url))) > 0

UrlPrefixes == { <<>>, <<"x">>, <<"h", "t", "t", "p", ":", "/", "/", "x", ".", "o", "r", "g", "/">> }
UrlSchemes == { <<"h", "t", "t", "p">>, <<"h", "t", "t", "p", "s">>, <<"H", "T", "T", "P">>, <<"h", "t", "p">> }
UrlSeparators == { <<":", "/", "/">>, <<":", "/">> }
UrlSubdomains == { <<>>, <<"d", "x", ".">>, <<"d", "x", "x">>, <<"d", "x">> }
UrlHosts == { <<"d", "o", "i", ".", "o", "r", "g">>, <<"d", "o", "i", "x", "o", "r", "g">>,
              <<"D", "O", "I", ".", "O", "R", "G">>, <<"d", "o", "i", ".", "o", "r">>,
              <<"x", ".", "o", "r", "g">> }
UrlSlashes == { <<"/">>, <<>> }
UrlSuffixes == { <<>>, <<"1", "0", ".", "1", "/", "2">> }

UrlInputs ==
    { pre \o sch \o sep \o sub \o host \o sl \o suf :
        pre \in UrlPrefixes, sch \in UrlSchemes, sep \in UrlSeparators,
        sub \in UrlSubdomains, host \in UrlHosts, sl \in UrlSlashes, suf \in UrlSuffixes }
    \cup UrlSuffixes

InitUrl ==
    /\ pc = "start"
    /\ arg \in UrlInputs
    /\ out = NoOutcome
    /\ arg2 = NoneVal
    /\ out2 = NoOutcome
    /\ log = <<>>

CallIsDoiUrl ==
    /\ pc = "start"
    /\ out' = Return(is_doi_url(arg))
    /\ pc' = "called"
    /\ UNCHANGED <<arg, arg2, out2, log>>

NextUrl == CallIsDoiUrl

SpecUrl == InitUrl /\ [][NextUrl]_vars

\* The form the contract names: http or https, "://", an optional "dx.", the
\* host "doi.org", "/", then any suffix, from the first character on.
ResolverForm(s) ==
    \E sch \in { <<"h", "t", "t", "p">>, <<"h", "t", "t", "p", "s">> } :
        \E sub \in { <<>>, <<"d", "x", ".">> } :
            StartsWithAt(s, 1, sch \o <<":", "/", "/">> \o sub
                                   \o <<"d", "o", "i", ".", "o", "r", "g", "/">>)

\* C5 (as stated): is_doi_url returns a boolean, true exactly for the strings
\* whose lowercased form is a resolver link.
C5_ResolverLinkOnly ==
    pc = "called" =>
        /\ out.kind = "return"
        /\ out.value \in BOOLEAN
        /\ out.value <=> ResolverForm(lower(arg))

(***************************************************************************)
(* clean_html, remove_punctuation, normalize and normalize_simple.         *)
(***************************************************************************)
\* The end of the shortest <.*?> match that starts at i (0 when there is none):
\* the first ">" after i with no newline in between.
TagEnd(s, i) ==
    LET ends == { j \in (i + 1)..Len(s) :
                    s[j] = ">" /\ \A k \in (i + 1)..(j - 1) : Dot(s[k]) }
    IN  IF i <= Len(s) /\ s[i] = "<" /\ ends /= {} THEN SetMin(ends) ELSE 0

RECURSIVE SubTags(_, _)
SubTags(s, i) ==
    IF i > Len(s) THEN <<>>
    ELSE IF TagEnd(s, i) > 0 THEN SubTags(s, TagEnd(s, i) + 1)
    ELSE <<s[i]>> \o SubTags(s, i + 1)

\* re.sub('<.*?>', '', raw_html)
clean_html(raw_html) == SubTags(raw_html, 1)

AlnumOrSpace(e) == isalnum(e) \/ isspace(e)

KeepPunctuation(input_string) == input_string

remove_punctuation(input_string) ==
    IF input_string /= <<>> THEN SelectSeq(input_string, AlnumOrSpace) ELSE input_string

\* \b before position i (1..Len(s)+1): exactly one neighbour is a word character.
IsWordAt(s, i) == i >= 1 /\ i <= Len(s) /\ IsWordChar(s[i])
WordBoundary(s, i) == IsWordAt(s, i - 1) /= IsWordAt(s, i)

\* The alternative of \b(w1|w2|...)\b that matches at i (0 when none does);
\* the alternatives are tried in order.
AltAt(s, i, alts) ==
    LET ok == { n \in 1..Len(alts) :
                  /\ WordBoundary(s, i)
                  /\ StartsWithAt(s, i, alts[n])
                  /\ WordBoundary(s, i + Len(alts[n])) }
    IN  IF ok = {} THEN 0 ELSE SetMin(ok)

RECURSIVE SubWords(_, _, _)
SubWords(s, i, alts) ==
    IF i > Len(s) THEN <<>>
    ELSE IF AltAt(s, i, alts) > 0 THEN SubWords(s, i + Len(alts[AltAt(s, i, alts)]), alts)
    ELSE <<s[i]>> \o SubWords(s, i + 1, alts)

Articles == << <<"a">>, <<"a", "n">>, <<"t", "h", "e">> >>
Conjunctions == << <<"a", "n", "d">> >>

\* re.sub(r"\b(a|an|the)\b", "", response)
RemoveArticles(response) == SubWords(response, 1, Articles)

\* re.sub(r"\b(and)\b", "", response)
RemoveAnd(response) == SubWords(response, 1, Conjunctions)

NotSpace(c) == ~isspace(c)

\* Each run of whitespace becomes one space.
RECURSIVE CollapseWhitespace(_)
CollapseWhitespace(s) ==
    IF s = <<>> THEN <<>>
    ELSE IF isspace(Head(s))
         THEN IF Len(s) > 1 /\ isspace(s[2]) THEN CollapseWhitespace(Tail(s))
              ELSE <<" ">> \o CollapseWhitespace(Tail(s))
         ELSE <<Head(s)>> \o CollapseWhitespace(Tail(s))

\* re.sub(r"\s+", "", response)
RemoveWhitespace(response) == SelectSeq(response, NotSpace)

normalize(text) ==
    RemoveWhitespace(RemoveAnd(RemoveArticles(
        remove_punctuation(clean_html(unidecode(lower(text)))))))

normalize_simple(text) ==
    RemoveWhitespace(RemoveArticles(remove_punctuation(lower(text))))

(***************************************************************************)
(* The caller of the normalizers: a text made of a few tokens is normalized *)
(* by normalize or by normalize_simple.                                    *)
(***************************************************************************)
Tokens == { <<"t", "h", "e">>, <<"T", "h", "e">>, <<"a", "n">>, <<"a", "n", "d">>,
            <<"c", "a", "t">>, <<" ">>, <<",">>, <<"<">>, <<">">>,
            <<"U+5317">>, <<"U+00E9">>, <<NewlineChar>> }

RECURSIVE TextsOf(_, _)
TextsOf(toks, n) ==
    IF n = 0 THEN { <<>> }
    ELSE LET shorter == TextsOf(toks, n - 1)
         IN  shorter \cup { t \o w : t \in shorter, w \in toks }

Texts == TextsOf(Tokens, MaxTokens)

InitNorm ==
    /\ pc = "start"
    /\ arg \in Texts
    /\ out = NoOutcome
    /\ arg2 = NoneVal
    /\ out2 = NoOutcome
    /\ log = <<>>

CallNormalize ==
    /\ pc = "start"
    /\ out' = Return(normalize(arg))
    /\ pc' = "normalize"
    /\ UNCHANGED <<arg, arg2, out2, log>>

CallNormalizeSimple ==
    /\ pc = "start"
    /\ out' = Return(normalize_simple(arg))
    /\ pc' = "normalize_simple"
    /\ UNCHANGED <<arg, arg2, out2, log>>

NextNorm == CallNormalize \/ CallNormalizeSimple

SpecNorm == InitNorm /\ [][NextNorm]_vars

AsciiUpper(c) == c \in UpperLetters

\* C6 (as stated): normalize(t) holds no whitespace and no uppercase ASCII
\* letter.
C6_NoWhitespaceNoUppercase ==
    pc = "normalize" =>
        \A k \in 1..Len(out.value) :
            ~isspace(out.value[k]) /\ ~AsciiUpper(out.value[k])

\* The pipeline the contract gives for normalize_simple: normalize without
\* the transliteration and with whitespace collapsed instead of deleted.
ClaimedNormalizeSimple(text) ==
    CollapseWhitespace(RemoveAnd(RemoveArticles(
        remove_punctuation(clean_html(lower(text))))))

\* C8 (as stated): normalize_simple(t) is the normalize pipeline without the
\* transliteration and without the deletion of whitespace, runs of whitespace
\* collapsed to one space.
C8_SimpleIsNormalizeMinusTwoSteps ==
    pc = "normalize_simple" => out.value = ClaimedNormalizeSimple(arg)

\* str.split(): the maximal runs of non-whitespace characters.
RECURSIVE SplitWords(_, _)
SplitWords(s, cur) ==
    IF s = <<>> THEN (IF cur = <<>> THEN <<>> ELSE <<cur>>)
    ELSE IF isspace(Head(s))
         THEN (IF cur = <<>> THEN <<>> ELSE <<cur>>) \o SplitWords(Tail(s), <<>>)
         ELSE SplitWords(Tail(s), Append(cur, Head(s)))

IsAlnumChar(c) == isalnum(c)

RECURSIVE JoinKept(_)
JoinKept(words) ==
    IF words = <<>> THEN <<>>
    ELSE LET w == SelectSeq(Head(words), IsAlnumChar)
         IN  (IF w \in { <<"a">>, <<"a", "n">>, <<"t", "h", "e">> } THEN <<>> ELSE w)
                 \o JoinKept(Tail(words))

\* C8 (amended): normalize_simple(t) is the lowercased text cut into words at
\* whitespace, each word stripped of its non-alphanumeric characters, the
\* words "a", "an" and "the" dropped and the rest run together: no HTML tag
\* is stripped, "and" stays, and no whitespace is left in the output.
C8_SimpleRunsWordsTogether ==
    pc = "normalize_simple" =>
        /\ out.value = JoinKept(SplitWords(lower(arg), <<>>))
        /\ \A k \in 1..Len(out.value) : ~isspace(out.value[k])

\* normalize_simple("cat and") has returned "catand".
C8_Witness ==
    /\ pc = "normalize_simple"
    /\ arg = <<"c", "a", "t", " ", "a", "n", "d">>
    /\ out.value = <<"c", "a", "t", "a", "n", "d">>

(***************************************************************************)
(* Two texts that differ in case, punctuation and articles: u starts as t, *)
(* is edited a few times, and both are normalized.                         *)
(***************************************************************************)
EditTokens == { <<"t", "h", "e">>, <<"x">>, <<" ">>, <<",">>, <<"<">>, <<">">>, <<"U+5317">> }

EditTexts == TextsOf(EditTokens, MaxTokens)

IsAsciiLetter(c) == c \in UpperLetters \cup LowerLetters

SwapCase(c) == IF c \in UpperLetters THEN ToLowerAscii(c) ELSE ToUpperAscii(c)

IsPunctuation(c) == ~isalnum(c) /\ ~isspace(c)

Without(s, i, n) == Slice(s, 1, i - 1) \o Slice(s, i + n, Len(s))

LowerEach(s) == [k \in 1..Len(s) |-> ToLowerAscii(s[k])]

\* A whole-word "a", "an" or "the" at position i, whatever its case.
ArticleAt(s, i) == AltAt(LowerEach(s), i, Articles)

SpaceOrEnd(s, i) == i < 1 \/ i > Len(s) \/ isspace(s[i])

InitEdit ==
    /\ pc = "edit"
    /\ arg \in EditTexts
    /\ arg2 = arg
    /\ out = NoOutcome
    /\ out2 = NoOutcome
    /\ log = [n |-> 0, tags |-> {}]

Edited(u, tag) ==
    /\ pc = "edit"
    /\ log.n < MaxEdits
    /\ arg2' = u
    /\ log' = [n |-> log.n + 1, tags |-> log.tags \cup {tag}]
    /\ UNCHANGED <<pc, arg, out, out2>>

EditCase ==
    \E i \in 1..Len(arg2) :
        /\ IsAsciiLetter(arg2[i])
        /\ Edited([arg2 EXCEPT ![i] = SwapCase(arg2[i])], "case")

EditPunctuation ==
    \E i \in 1..Len(arg2) :
        /\ IsPunctuation(arg2[i])
        /\ Edited(Without(arg2, i, 1),
                  IF arg2[i] \in {"<", ">"} THEN "angle bracket" ELSE "punctuation")

EditArticle ==
    \E i \in 1..Len(arg2) :
        /\ ArticleAt(arg2, i) > 0
        /\ LET n == Len(Articles[ArticleAt(arg2, i)])
           IN  Edited(Without(arg2, i, n),
                      IF SpaceOrEnd(arg2, i - 1) /\ SpaceOrEnd(arg2, i + n)
                      THEN "spaced article" ELSE "adjoining article")

NormalizeBoth ==
    /\ pc = "edit"
    /\ out' = Return(normalize(arg))
    /\ out2' = Return(normalize(arg2))
    /\ pc' = "compared"
    /\ UNCHANGED <<arg, arg2, log>>

NextEdit == EditCase \/ EditPunctuation \/ EditArticle \/ NormalizeBoth

SpecEdit == InitEdit /\ [][NextEdit]_vars

\* C7 (as stated): two texts that differ only in letter case, in punctuation
\* or symbol characters ("<" and ">" included) and in whole-word "a", "an",
\* "the" have the same normalize.
C7_InsensitiveToCasePunctuationArticles ==
    pc = "compared" => out.value = out2.value

\* C7 (amended): two texts that differ only in letter case, in punctuation
\* characters other than "<" and ">", and in occurrences of "a", "an", "the"
\* that stand between whitespace or the ends of the text have the same
\* normalize.
C7_InsensitiveOutsideTags ==
    (pc = "compared" /\ log.tags \subseteq {"case", "punctuation", "spaced article"})
        => out.value = out2.value

\* "the x" and " X": a text that lost its article and changed the case of a
\* letter has been normalized to the same non-empty key.
C7_Witness ==
    /\ pc = "compared"
    /\ log.tags = {"case", "spaced article"}
    /\ arg = <<"t", "h", "e", " ", "x">>
    /\ arg2 = <<" ", "X">>
    /\ out.value = <<"x">>
    /\ out2.value = <<"x">>

(***************************************************************************)
(* HTTPMethodOverrideMiddleware.  A value of the environ is absent, a str  *)
(* or a bytes object.                                                      *)
(***************************************************************************)
Absent == [type |-> "absent", s |-> <<>>]
StrVal(s) == [type |-> "str", s |-> s]
BytesVal(s) == [type |-> "bytes", s |-> s]

GET == <<"G", "E", "T">>
HEAD == <<"H", "E", "A", "D">>
POST == <<"P", "O", "S", "T">>
DELETE == <<"D", "E", "L", "E", "T", "E">>
PUT == <<"P", "U", "T">>
PATCH == <<"P", "A", "T", "C", "H">>
OPTIONS == <<"O", "P", "T", "I", "O", "N", "S">>

allowed_methods == {GET, HEAD, POST, DELETE, PUT, PATCH, OPTIONS}
bodyless_methods == {GET, HEAD, OPTIONS, DELETE}

\* "v in methods" for a frozenset of str: a bytes object equals no str.
In(v, methods) == v.type = "str" /\ v.s \in methods

\* environ.get(key, '')
Get(environ, key) == IF environ[key].type = "absent" THEN StrVal(<<>>) ELSE environ[key]

\* method.encode('ascii', 'replace')
Encode(v) == BytesVal(v.s)

\* The environ as the wrapped app is given it.
MiddlewareCall(environ) ==
    LET method0 == StrVal(upper(Get(environ, "HTTP_X_HTTP_METHOD_OVERRIDE").s))
        allowed == In(method0, allowed_methods)
        method == IF allowed THEN Encode(method0) ELSE method0
        env1 == IF allowed THEN [environ EXCEPT !["REQUEST_METHOD"] = method] ELSE environ
    IN  IF In(method, bodyless_methods)
        THEN [env1 EXCEPT !["CONTENT_LENGTH"] = StrVal(<<"0">>)]
        ELSE env1

OverrideHeaders ==
    { Absent } \cup
    { StrVal(m) : m \in allowed_methods } \cup
    { StrVal(lower(m)) : m \in {GET, DELETE, PUT} } \cup
    { StrVal(<<"H", "e", "a", "d">>), StrVal(<<"T", "R", "A", "C", "E">>), StrVal(<<>>) }

EnvironOf(h, m, l) ==
    [ k \in {"HTTP_X_HTTP_METHOD_OVERRIDE", "REQUEST_METHOD", "CONTENT_LENGTH"} |->
        CASE k = "HTTP_X_HTTP_METHOD_OVERRIDE" -> h
          [] k = "REQUEST_METHOD" -> m
          [] OTHER -> l ]

RequestEnvirons ==
    { EnvironOf(h, m, l) :
        h \in OverrideHeaders,
        m \in { StrVal(POST), StrVal(GET) },
        l \in { Absent, StrVal(<<"0">>), StrVal(<<"2">>) } }

InitMw ==
    /\ pc = "idle"
    /\ arg = NoneVal
    /\ arg2 = NoneVal
    /\ out = NoOutcome
    /\ out2 = NoOutcome
    /\ log = <<>>

\* A request reaches the server: arg is its environ as received, arg2 the
\* environ dictionary handed on (the same object, mutated in place).
Request ==
    /\ pc \in {"idle", "responded"}
    /\ Len(log) < MaxRequests
    /\ \E environ \in RequestEnvirons :
        /\ arg' = environ
        /\ arg2' = environ
    /\ pc' = "received"
    /\ UNCHANGED <<out, out2, log>>

\* __call__: the environ is rewritten and the wrapped app is invoked with it;
\* log holds the environ of every invocation of the wrapped app.
MiddlewareHandle ==
    /\ pc = "received"
    /\ arg2' = MiddlewareCall(arg2)
    /\ log' = Append(log, MiddlewareCall(arg2))
    /\ out' = Return("app response")
    /\ pc' = "responded"
    /\ UNCHANGED <<arg, out2>>

NextMw == Request \/ MiddlewareHandle

SpecMw == InitMw /\ [][NextMw]_vars

OverrideOf(environ) == upper(Get(environ, "HTTP_X_HTTP_METHOD_OVERRIDE").s)

\* C9 (as stated): the wrapped app is invoked once per request with the
\* request's environ; REQUEST_METHOD changes only when the upper-cased
\* override header is an allowed method; and when the header names a bodyless
\* method the app sees CONTENT_LENGTH '0'.
C9_OverrideAndBodyless ==
    pc = "responded" =>
        /\ Len(log) >= 1
        /\ log[Len(log)] = arg2
        /\ OverrideOf(arg) \notin allowed_methods
              => arg2["REQUEST_METHOD"] = arg["REQUEST_METHOD"]
        /\ OverrideOf(arg) \in allowed_methods
              => arg2["REQUEST_METHOD"].s = OverrideOf(arg)
        /\ OverrideOf(arg) \in bodyless_methods
              => arg2["CONTENT_LENGTH"] = StrVal(<<"0">>)

(***************************************************************************)
(* safe_commit.  The behaviour of db.session during one call is an input:  *)
(* what commit() does and what rollback() does if it is called.            *)
(***************************************************************************)
ExceptionClasses == {"DataError", "Exception", "KeyboardInterrupt", "SystemExit", "GeneratorExit"}

\* isinstance(e, cls) over the class hierarchy: DataError is an Exception;
\* KeyboardInterrupt, SystemExit and GeneratorExit are BaseExceptions only.
IsInstance(e, cls) ==
    \/ e = cls
    \/ cls = "BaseException"
    \/ cls = "Exception" /\ e \in {"DataError", "Exception"}

SessionBehaviours ==
    [ commit : {"ok"} \cup ExceptionClasses, rollback : {"ok", "Exception"} ]

\* The first except clause: KeyboardInterrupt and SystemExit are re-raised.
LetThrough(e) == IsInstance(e, "KeyboardInterrupt") \/ IsInstance(e, "SystemExit")

\* The clauses that roll back: except DataError, except Exception.
CatchesEverything(e) == TRUE
RollsBack(e) == IsInstance(e, "DataError") \/ IsInstance(e, "Exception")

\* The outcome of safe_commit(db) and the calls it made on db.session.
safe_commit(db) ==
    IF db.commit = "ok" THEN [out |-> Return(TRUE), calls |-> <<"commit">>]
    ELSE IF LetThrough(db.commit)
         THEN [out |-> Raise(db.commit, "commit"), calls |-> <<"commit">>]
    ELSE IF RollsBack(db.commit)
         THEN IF db.rollback = "ok"
              THEN [out |-> Return(FALSE), calls |-> <<"commit", "rollback">>]
              ELSE [out |-> Raise(db.rollback, "rollback"), calls |-> <<"commit", "rollback">>]
    ELSE [out |-> Raise(db.commit, "commit"), calls |-> <<"commit">>]

InitCommit ==
    /\ pc = "start"
    /\ arg = [commit |-> "ok", rollback |-> "ok"]
    /\ arg2 = NoneVal
    /\ out = NoOutcome
    /\ out2 = <<>>
    /\ log = <<>>

\* One call of safe_commit: log holds the calls it made on db.session, out2
\* the outcomes of the earlier calls.
SafeCommit ==
    /\ Len(out2) < MaxCommits
    /\ \E db \in SessionBehaviours :
        /\ arg' = db
        /\ out' = safe_commit(db).out
        /\ log' = safe_commit(db).calls
        /\ out2' = Append(out2, safe_commit(db).out)
    /\ pc' = "called"
    /\ UNCHANGED arg2

NextCommit == SafeCommit

SpecCommit == InitCommit /\ [][NextCommit]_vars

Count(calls, name) == Cardinality({ k \in 1..Len(calls) : calls[k] = name })

\* C10 (as stated): True exactly when commit() did not raise, and then no
\* rollback; any exception of commit() but KeyboardInterrupt and SystemExit
\* gives one rollback and the result False; KeyboardInterrupt and SystemExit
\* propagate without a rollback.
C10_CommitOutcomes ==
    pc = "called" =>
        /\ out = Return(TRUE) <=> arg.commit = "ok"
        /\ arg.commit = "ok" => Count(log, "rollback") = 0
        /\ arg.commit \in ExceptionClasses \ {"KeyboardInterrupt", "SystemExit"}
              => (Count(log, "rollback") = 1 /\ out = Return(FALSE))
        /\ arg.commit \in {"KeyboardInterrupt", "SystemExit"}
              => (out = Raise(arg.commit, "commit") /\ Count(log, "rollback") = 0)

\* C10 (amended): True exactly when commit() did not raise, and then no
\* rollback; an exception of commit() that is an instance of Exception gives
\* one rollback, and the result False when that rollback returns (the
\* rollback's own exception propagates otherwise); every other exception of
\* commit() - KeyboardInterrupt, SystemExit, any other BaseException -
\* propagates without a rollback.
C10_CommitOutcomesByClass ==
    pc = "called" =>
        /\ out = Return(TRUE) <=> arg.commit = "ok"
        /\ arg.commit = "ok" => Count(log, "rollback") = 0
        /\ arg.commit \in {"DataError", "Exception"}
              => /\ Count(log, "rollback") = 1
                 /\ arg.rollback = "ok" => out = Return(FALSE)
                 /\ arg.rollback /= "ok" => out = Raise(arg.rollback, "rollback")
        /\ arg.commit \in {"KeyboardInterrupt", "SystemExit", "GeneratorExit"}
              => (out = Raise(arg.commit, "commit") /\ Count(log, "rollback") = 0)

\* A commit that raised a DataError has been rolled back once and answered
\* False, after an earlier call.
C10_Witness ==
    /\ pc = "called"
    /\ Len(out2) = 2
    /\ arg.commit = "DataError"
    /\ arg.rollback = "ok"
    /\ log = <<"commit", "rollback">>
    /\ out = Return(FALSE)

====
